---- MODULE Spec2Model ----
(***************************************************************************)
(* Model of the Nifty options backend (src/main.py and the snapshot        *)
(* modules): the normalisation of provider values, the option-chain lookup *)
(* table, enrich_contracts and the rankings, generate_alerts, and the      *)
(* error paths of the /nifty/data handler, and the session cache of       *)
(* get_nse_session.                                                        *)
(*                                                                         *)
(* A JSON / Python value that the code treats as a number is held as a     *)
(* tagged record [t, n]:                                                   *)
(*    t = "num"   the number n (int or float; lastPrice is in hundredths)  *)
(*    t = "str"   a string that parses as the number n ("7")               *)
(*    t = "bad"   a string that does not parse ("abc", "-")                *)
(*    t = "None"  Python None / JSON null                                  *)
(*    t = "nan"   float NaN                                                *)
(*    t = "dash"  the display placeholder '-'                              *)
(* A dict is a function whose DOMAIN is the set of keys present.           *)
(* String-valued fields (optionType, expiryDate) are strings; NoneStr      *)
(* stands for None there.                                                  *)
(***************************************************************************)
EXTENDS Integers, Sequences, FiniteSets, TLC

VARIABLES
    pc,                       \* position in get_nifty_data
    option_rows_from_oc,      \* oc_json['filtered']['data']
    nearest_expiry,           \* nearest_expiry_display_format
    mostActiveCall_raw,       \* active_json['mostActiveCall']
    mostActivePut_raw,        \* active_json['mostActivePut']
    mostActiveOI_raw,         \* active_json['mostActiveContractbyOI']
    all_options_for_alerts,   \* one row per strike and side of the chain
    oc_details_map,           \* (strike, expiry) -> {CE?: detail, PE?: detail}
    calls_enriched,
    puts_enriched,
    oi_enriched_temp,
    oi_sorted,
    nifty_stats,              \* the index-statistics row, defaults filled in
    alerts_output,
    _session,                 \* the cached upstream session (NoSession: None)
    _last_session_update,     \* time of the last successful refresh
    now,                      \* time.time()
    session_call,             \* what the last call of get_nse_session did
    failed,                   \* the upstream fetch that failed, and how
    status                    \* "pending", "200", "500" or "503"

vars == <<pc, option_rows_from_oc, nearest_expiry, mostActiveCall_raw,
          mostActivePut_raw, mostActiveOI_raw, all_options_for_alerts,
          oc_details_map, calls_enriched, puts_enriched, oi_enriched_temp,
          oi_sorted, nifty_stats, alerts_output, _session, _last_session_update,
          now, session_call, failed, status>>

\* what only get_nse_session and the clock write
sessionClock == <<_last_session_update, now, session_call>>

----------------------------------------------------------------------------
(* Values *)

Num(n)    == [t |-> "num", n |-> n]
NumStr(n) == [t |-> "str", n |-> n]
BadStr    == [t |-> "bad", n |-> 0]
NoneV     == [t |-> "None", n |-> 0]
NaN       == [t |-> "nan", n |-> 0]
Dash      == [t |-> "dash", n |-> 0]
NoneStr   == "<None>"

EmptyDict == [k \in {} |-> NoneV]

\* d.get(k, default)
Get(d, k, default) == IF k \in DOMAIN d THEN d[k] ELSE default

\* d[k] = v on a copy of d
Put(d, k, v) == [f \in DOMAIN d \cup {k} |-> IF f = k THEN v ELSE d[f]]

\* d.update(u) on a copy of d
Update(d, u) == [f \in DOMAIN d \cup DOMAIN u |-> IF f \in DOMAIN u THEN u[f] ELSE d[f]]

\* bool(v) of a numeric-or-not value: only the number 0 is falsy among the
\* results of pd.to_numeric (NaN is truthy); None and '' are falsy.
Truthy(v) == ~ ((v.t = "num" /\ v.n = 0) \/ v.t = "None")

\* bool(s) of a string-or-None value
TruthyStr(s) == s \notin {NoneStr, ""}

\* pd.to_numeric(v, errors='coerce') of a scalar
ToNumeric(v) ==
    CASE v.t = "num" -> v
      [] v.t = "str" -> Num(v.n)
      [] v.t = "nan" -> NaN
      [] OTHER       -> NaN

\* pd.to_numeric(v, errors='coerce') or default
NumericOr(v, default) ==
    LET x == ToNumeric(v) IN IF Truthy(x) THEN x ELSE default

MIN_TICK == 5   \* 0.05, in hundredths

----------------------------------------------------------------------------
(* The option chain: rows -> all_options_for_alerts -> oc_details_map *)

\* a or b or c on string-or-None values
Or3(a, b, c) == IF TruthyStr(a) THEN a ELSE IF TruthyStr(b) THEN b ELSE c

\* alert_ce_opt / alert_pe_opt of one side of a chain row
AlertOpt(strike, typ, expiry, d) ==
    [strikePrice |-> strike,
     optionType  |-> typ,
     expiryDate  |-> expiry,
     OI          |-> NumericOr(Get(d, "openInterest", Num(0)), Num(0)),
     COI         |-> NumericOr(Get(d, "changeinOpenInterest", Num(0)), Num(0)),
     TBQ         |-> NumericOr(Get(d, "totalBuyQuantity", Num(0)), Num(0)),
     TSQ         |-> NumericOr(Get(d, "totalSellQuantity", Num(0)), Num(0)),
     pchange     |-> NumericOr(Get(d, "pChange", Num(0)), Num(0)),
     lastPrice   |-> NumericOr(Get(d, "lastPrice", Num(0)), Num(0))]

\* the rows one chain row r adds to all_options_for_alerts
RowOptions(r, nearest) ==
    LET strike  == Get(r, "strikePrice", NoneV)
        ce_data == Get(r, "CE", EmptyDict)
        pe_data == Get(r, "PE", EmptyDict)
        current_expiry_for_option ==
            Or3(Get(ce_data, "expiryDate", NoneStr),
                Get(pe_data, "expiryDate", NoneStr), nearest)
    IN  IF strike = NoneV THEN << >>
        ELSE (IF DOMAIN ce_data # {}
                THEN << AlertOpt(strike, "CE", current_expiry_for_option, ce_data) >>
                ELSE << >>)
             \o
             (IF DOMAIN pe_data # {}
                THEN << AlertOpt(strike, "PE", current_expiry_for_option, pe_data) >>
                ELSE << >>)

RECURSIVE AllOptions(_, _)
AllOptions(rows, nearest) ==
    IF rows = << >> THEN << >>
    ELSE RowOptions(Head(rows), nearest) \o AllOptions(Tail(rows), nearest)

\* the detail stored in oc_details_map[key][side]
Detail(opt) ==
    [openInterest         |-> opt["OI"],
     changeinOpenInterest |-> opt["COI"],
     totalBuyQuantity     |-> opt["TBQ"],
     totalSellQuantity    |-> opt["TSQ"],
     pChange              |-> opt["pchange"],
     lastPrice            |-> opt["lastPrice"],
     totalTradedVolume    |-> Get(opt, "volume", Num(0))]

\* one iteration of the loop that fills oc_details_map
MapPut(map, opt) ==
    LET sp       == Get(opt, "strikePrice", NoneV)
        typ      == Get(opt, "optionType", NoneStr)
        exp_date == Get(opt, "expiryDate", NoneStr)
        key      == << sp, exp_date >>
        old      == IF key \in DOMAIN map THEN map[key] ELSE EmptyDict
    IN  IF sp # NoneV /\ typ \in {"CE", "PE"} /\ TruthyStr(exp_date)
          THEN Put(map, key, Put(old, typ, Detail(opt)))
          ELSE map

RECURSIVE BuildMap(_, _)
BuildMap(opts, map) ==
    IF opts = << >> THEN map
    ELSE BuildMap(Tail(opts), MapPut(map, Head(opts)))

----------------------------------------------------------------------------
(* enrich_contracts *)

\* str.replace('Call','CE').replace('Put','PE').replace('Index','XX') on the
\* side labels of the model (none of which contains another as a substring)
ReplaceSide(s) ==
    CASE s = "Call"  -> "CE"
      [] s = "Put"   -> "PE"
      [] s = "Index" -> "XX"
      [] OTHER       -> s

\* the fields the merger takes from a matched detail
MatchedFields(detail) ==
    [OI        |-> NumericOr(Get(detail, "openInterest", Num(0)), Num(0)),
     COI       |-> NumericOr(Get(detail, "changeinOpenInterest", Num(0)), Num(0)),
     TBQ       |-> NumericOr(Get(detail, "totalBuyQuantity", Num(0)), Num(0)),
     TSQ       |-> NumericOr(Get(detail, "totalSellQuantity", Num(0)), Num(0)),
     pchange   |-> NumericOr(Get(detail, "pChange", Num(0)), Num(0)),
     lastPrice |-> NumericOr(Get(detail, "lastPrice", Num(0)), Num(0)),
     volume    |-> NumericOr(Get(detail, "totalTradedVolume", Num(0)), Num(0))]

\* oc_type_key
SideKey(opt_type_raw) ==
    IF opt_type_raw = "Call" THEN "CE"
    ELSE IF opt_type_raw = "Put" THEN "PE" ELSE NoneStr

\* lookup_expiry
LookupExpiry(contract, nearest) ==
    LET contract_expiry == Get(contract, "expiryDate", NoneStr)
    IN  IF TruthyStr(contract_expiry) THEN contract_expiry ELSE nearest

\* the guards of lines 444-448: the contract has a detail in the table
HasDetail(contract, map, nearest) ==
    LET sp  == Get(contract, "strikePrice", NoneV)
        key == << sp, LookupExpiry(contract, nearest) >>
        typ == SideKey(Get(contract, "optionType", NoneStr))
    IN  /\ sp # NoneV
        /\ typ \in {"CE", "PE"}
        /\ TruthyStr(LookupExpiry(contract, nearest))
        /\ key \in DOMAIN map
        /\ typ \in DOMAIN map[key]

DetailOf(contract, map, nearest) ==
    map[<< Get(contract, "strikePrice", NoneV), LookupExpiry(contract, nearest) >>]
       [SideKey(Get(contract, "optionType", NoneStr))]

\* x == 0 in Python for the values of the model
EqZero(v) == v.t = "num" /\ v.n = 0

\* the value shown as it is, zero included
Display_Raw(v) == v

\* '-' if display_x == 0 else display_x
Display(v) == IF EqZero(v) THEN Dash ELSE v

\* opt_type_raw.replace(...) raises AttributeError when optionType is None
EnrichRaises(contract) == Get(contract, "optionType", NoneStr) = NoneStr

\* the body of the loop of enrich_contracts, for a contract it does not raise on
EnrichOne(contract, map, nearest) ==
    LET m1 == IF HasDetail(contract, map, nearest)
                THEN Update(contract, MatchedFields(DetailOf(contract, map, nearest)))
                ELSE contract
        m2 == Put(m1, "optionType", ReplaceSide(Get(contract, "optionType", NoneStr)))
        m3 == Put(m2, "lastPrice",
                  NumericOr(Get(m2, "lastPrice", Num(MIN_TICK)), Num(MIN_TICK)))
        m4 == Put(m3, "volume", NumericOr(Get(m3, "volume", Num(0)), Num(0)))
        m5 == Put(m4, "value", Get(m4, "value", Dash))
        m6 == Put(m5, "pchange", NumericOr(Get(m5, "pchange", Num(0)), Num(0)))
        m7 == Update(m6,
                [OI_display     |-> Display(Get(m6, "OI", Num(0))),
                 COI_display    |-> Display(Get(m6, "COI", Num(0))),
                 volume_display |-> Display(Get(m6, "volume", Num(0)))])
    IN  Put(m7, "expiryDate",
            Get(m7, "expiryDate", IF TruthyStr(nearest) THEN nearest ELSE "N/A"))

\* enrich_contracts(contract_list), when it does not raise
EnrichContracts(contract_list, map, nearest) ==
    [i \in 1..Len(contract_list) |-> EnrichOne(contract_list[i], map, nearest)]

\* the caller's list after a call in which the loop writes into the records it
\* was handed (merged_contract = contract)
ContractsWrittenInPlace(contract_list, map, nearest) ==
    EnrichContracts(contract_list, map, nearest)

\* the caller's list after the call: line 439 copies each record
\* (merged_contract = dict(contract)) and every write goes to the copy
ContractsAfterEnrich(contract_list, map, nearest) == contract_list

\* enrich_contracts raises when some contract of the list makes it raise
EnrichListRaises(contract_list) ==
    \E i \in 1..Len(contract_list) : EnrichRaises(contract_list[i])

----------------------------------------------------------------------------
(* sorted(list, key=...): CPython's list.sort on a short list (one run found *)
(* by count_run, the rest placed by binary insertion), over Python's <      *)

\* a < b in Python for two numbers; every comparison with NaN is False
PyLess(a, b) == a.t = "num" /\ b.t = "num" /\ a.n < b.n

\* a < b raises TypeError unless both are numbers (NaN is a float)
Comparable(a) == a.t \in {"num", "nan"}

Reverse(s) == [i \in 1..Len(s) |-> s[Len(s) + 1 - i]]

\* last index of the run that starts at 1 and has reached i
RECURSIVE RunEnd(_, _, _)
RunEnd(keys, i, descending) ==
    IF i = Len(keys) THEN i
    ELSE IF descending = PyLess(keys[i + 1], keys[i])
           THEN RunEnd(keys, i + 1, descending)
           ELSE i

\* position (0-based) at which binary insertion puts pivot in a[1..r]
RECURSIVE BinarySearch(_, _, _, _, _)
BinarySearch(keys, a, pivot, l, r) ==
    IF l >= r THEN l
    ELSE LET p == l + ((r - l) \div 2)
         IN  IF PyLess(keys[pivot], keys[a[p + 1]])
               THEN BinarySearch(keys, a, pivot, l, p)
               ELSE BinarySearch(keys, a, pivot, p + 1, r)

\* a[1..start] is sorted; insert a[start+1..] one by one
RECURSIVE BinarySort(_, _, _)
BinarySort(keys, a, start) ==
    IF start >= Len(a) THEN a
    ELSE LET pivot == a[start + 1]
             l     == BinarySearch(keys, a, pivot, 0, start)
             b     == [i \in 1..Len(a) |->
                          IF i <= l THEN a[i]
                          ELSE IF i = l + 1 THEN pivot
                          ELSE IF i <= start + 1 THEN a[i - 1]
                          ELSE a[i]]
         IN  BinarySort(keys, b, start + 1)

\* the order (a sequence of indices) in which sorted() returns the elements
SortedOrder(keys) ==
    LET n == Len(keys)
        ident == [i \in 1..n |-> i]
    IN  IF n < 2 THEN ident
        ELSE LET descending == PyLess(keys[2], keys[1])
                 e   == RunEnd(keys, 2, descending)
                 run == IF descending
                          THEN [i \in 1..n |-> IF i <= e THEN e + 1 - i ELSE i]
                          ELSE ident
             IN  BinarySort(keys, run, e)

SortedByKey(list, keys) ==
    LET order == SortedOrder(keys) IN [i \in 1..Len(list) |-> list[order[i]]]

\* sorted() raises TypeError when it has to compare a key that is not a number
SortRaises(keys) ==
    Len(keys) >= 2 /\ \E i \in 1..Len(keys) : ~ Comparable(keys[i])

\* key=lambda x: x.get('strikePrice', 0)
StrikeKeys(list) == [i \in 1..Len(list) |-> Get(list[i], "strikePrice", Num(0))]

\* -(x) of a number or NaN
Neg(v) == IF v.t = "num" THEN Num(0 - v.n) ELSE v

\* key=lambda x: -(pd.to_numeric(x.get('OI', 0), errors='coerce') or 0)
OIKeys(list) ==
    [i \in 1..Len(list) |-> Neg(NumericOr(Get(list[i], "OI", Num(0)), Num(0)))]

\* [c for c in list if P(c)]
RECURSIVE WithoutIndex(_)
WithoutIndex(list) ==
    IF list = << >> THEN << >>
    ELSE IF Get(Head(list), "optionType", NoneStr) # "XX"
           THEN << Head(list) >> \o WithoutIndex(Tail(list))
           ELSE WithoutIndex(Tail(list))

\* next((c for c in list if c.get('optionType') == 'XX'), None), as a list of
\* at most one element
RECURSIVE FirstIndex(_)
FirstIndex(list) ==
    IF list = << >> THEN << >>
    ELSE IF Get(Head(list), "optionType", NoneStr) = "XX"
           THEN << Head(list) >>
           ELSE FirstIndex(Tail(list))

\* lines 485-494: pin the index contract, sort the rest by OI descending
RankByOI(oi_temp) ==
    LET oi_contracts_only == WithoutIndex(oi_temp)
    IN  FirstIndex(oi_temp) \o SortedByKey(oi_contracts_only, OIKeys(oi_contracts_only))

----------------------------------------------------------------------------
(* generate_alerts *)

\* to_numeric(...).fillna(0) / "if pd.isna(x): x = 0": the number, NaN as 0
Fill0(v) == LET x == ToNumeric(v) IN IF x.t = "nan" THEN 0 ELSE x.n

\* str(n) of a non-negative integer, as the sequence of its character codes
RECURSIVE Digits(_)
Digits(n) == IF n < 10 THEN << 48 + n >> ELSE Digits(n \div 10) \o << 48 + (n % 10) >>

SideChars(typ) ==
    CASE typ = "CE" -> << 67, 69 >>
      [] typ = "PE" -> << 80, 69 >>
      [] OTHER      -> << 88, 88 >>

\* f"{strike} {typ}"
AlertKey(strike, typ) == Digits(strike.n) \o << 32 >> \o SideChars(typ)

\* a < b on two strings (sequences of character codes)
RECURSIVE StrLess(_, _)
StrLess(a, b) ==
    IF b = << >> THEN FALSE
    ELSE IF a = << >> THEN TRUE
    ELSE IF Head(a) # Head(b) THEN Head(a) < Head(b)
    ELSE StrLess(Tail(a), Tail(b))

Range(s) == { s[i] : i \in 1..Len(s) }

\* sorted places key after the strings of an ordered list that are not
\* greater than it
RECURSIVE InsertString(_, _)
InsertString(ordered, key) ==
    IF ordered = << >> THEN << key >>
    ELSE IF StrLess(key, Head(ordered)) THEN << key >> \o ordered
    ELSE << Head(ordered) >> \o InsertString(Tail(ordered), key)

\* sorted(list) of a list of strings
RECURSIVE SortedStrings(_)
SortedStrings(keys) ==
    IF keys = << >> THEN << >>
    ELSE InsertString(SortedStrings(SubSeq(keys, 1, Len(keys) - 1)), keys[Len(keys)])

\* list.append(key) without the test on seen
AppendAlways(list, key) == Append(list, key)

\* if key not in seen: list.append(key); seen.add(key)
AppendNew(list, key) == IF key \in Range(list) THEN list ELSE Append(list, key)

NoAlerts ==
    [momentum |-> << >>, unwinding |-> << >>, freshLongs |-> << >>,
     buyerDominance |-> << >>, sellerDominance |-> << >>]

\* abs(x) that leaves the sign in place
Abs_Signed(x) == x

\* abs(x)
Abs(x) == IF x < 0 THEN 0 - x ELSE x

\* the loop body with the freshLongs test made an independent "if" that looks
\* at the size of the OI change and not at its sign
AlertRow_FreshLongsUnsigned(b, opt) ==
    LET strike == Get(opt, "strikePrice", NoneV)
        typ    == Get(opt, "optionType", NoneStr)
        pchange_val == Fill0(opt["pchange"])
        oi     == Fill0(opt["OI"])
        coi    == Fill0(opt["COI"])
        tbq    == Fill0(opt["TBQ"])
        tsq    == Fill0(opt["TSQ"])
        key    == AlertKey(strike, typ)
        b1 == IF Abs(pchange_val) > 20
                THEN [b EXCEPT !.momentum = AppendNew(@, key)] ELSE b
        b2a == IF oi > 50000 /\ coi < 0 - 10000
                 THEN [b1 EXCEPT !.unwinding = AppendNew(@, key)] ELSE b1
        b2 == IF oi > 50000 /\ Abs(coi) > 10000
                THEN [b2a EXCEPT !.freshLongs = AppendNew(@, key)] ELSE b2a
        b3 == IF tsq > 0 /\ 2 * tbq > 3 * tsq /\ tbq > 50000
                THEN [b2 EXCEPT !.buyerDominance = AppendNew(@, key)]
              ELSE IF tbq > 0 /\ 2 * tsq > 3 * tbq /\ tsq > 50000
                THEN [b2 EXCEPT !.sellerDominance = AppendNew(@, key)]
              ELSE b2
    IN  IF strike = NoneV \/ typ = NoneStr THEN b ELSE b3

\* one iteration of the loop over the options table
AlertRow(b, opt) ==
    LET strike == Get(opt, "strikePrice", NoneV)
        typ    == Get(opt, "optionType", NoneStr)
        pchange_val == Fill0(opt["pchange"])
        oi     == Fill0(opt["OI"])
        coi    == Fill0(opt["COI"])
        tbq    == Fill0(opt["TBQ"])
        tsq    == Fill0(opt["TSQ"])
        key    == AlertKey(strike, typ)
        b1 == IF Abs(pchange_val) > 20
                THEN [b EXCEPT !.momentum = AppendNew(@, key)] ELSE b
        b2 == IF oi > 50000 /\ coi < 0 - 10000
                THEN [b1 EXCEPT !.unwinding = AppendNew(@, key)]
              ELSE IF oi > 50000 /\ coi > 10000
                THEN [b1 EXCEPT !.freshLongs = AppendNew(@, key)]
              ELSE b1
        \* tbq > tsq * 1.5 as 2 * tbq > 3 * tsq
        b3 == IF tsq > 0 /\ 2 * tbq > 3 * tsq /\ tbq > 50000
                THEN [b2 EXCEPT !.buyerDominance = AppendNew(@, key)]
              ELSE IF tbq > 0 /\ 2 * tsq > 3 * tbq /\ tsq > 50000
                THEN [b2 EXCEPT !.sellerDominance = AppendNew(@, key)]
              ELSE b2
    IN  IF strike = NoneV \/ typ = NoneStr THEN b ELSE b3

RECURSIVE AlertRows(_, _)
AlertRows(b, options) ==
    IF options = << >> THEN b
    ELSE AlertRows(AlertRow(b, Head(options)), Tail(options))

\* the five list buckets
AlertLists(options) ==
    IF options = << >> THEN NoAlerts
    ELSE LET b == AlertRows(NoAlerts, options)
         IN  [momentum        |-> SortedStrings(b.momentum),
              unwinding       |-> SortedStrings(b.unwinding),
              freshLongs      |-> SortedStrings(b.freshLongs),
              buyerDominance  |-> SortedStrings(b.buyerDominance),
              sellerDominance |-> SortedStrings(b.sellerDominance)]

\* alerts_data as generate_alerts initialises it (lines 132-141)
InitialAlerts ==
    [fairValuation   |-> "Valuation data unavailable.",
     marketBreadth   |-> "Market breadth data unavailable.",
     buyingInterest  |-> "Buying interest data unavailable.",
     momentum        |-> << >>,
     unwinding       |-> << >>,
     freshLongs      |-> << >>,
     buyerDominance  |-> << >>,
     sellerDominance |-> << >>]

\* the valuation narrative computed without the "if not valuation_df.empty" guard
FairValuation_Unguarded(valuation) ==
    LET pe == Fill0(Get(valuation, "peRatio", Num(0)))
    IN  IF pe > 25 THEN "PE ratio is high, suggesting overvaluation."
        ELSE IF pe > 0 /\ pe < 15 THEN "PE ratio is low, suggesting undervaluation."
        ELSE IF pe > 0 THEN "PE ratio is within normal range."
        ELSE "PE ratio data not available or invalid."

\* valuation_df.empty: no row, or a row without columns
FairValuation(valuation) ==
    LET pe == Fill0(Get(valuation, "peRatio", Num(0)))
    IN  IF DOMAIN valuation = {} THEN InitialAlerts.fairValuation
        ELSE IF pe > 25 THEN "PE ratio is high, suggesting overvaluation."
        ELSE IF pe > 0 /\ pe < 15 THEN "PE ratio is low, suggesting undervaluation."
        ELSE IF pe > 0 THEN "PE ratio is within normal range."
        ELSE "PE ratio data not available or invalid."

\* the breadth narrative with the thresholds taken as "at least 0.75"
MarketBreadth_AtLeast(valuation) ==
    LET adv == Fill0(Get(valuation, "advance_symbol", Num(0)))
        dec == Fill0(Get(valuation, "decline_symbol", Num(0)))
    IN  IF DOMAIN valuation = {} THEN InitialAlerts.marketBreadth
        ELSE IF adv + dec > 0
          THEN IF 4 * adv >= 3 * (adv + dec)
                 THEN "Majority of stocks are advancing (Bullish sentiment)."
               ELSE IF 4 * dec >= 3 * (adv + dec)
                 THEN "Majority of stocks are declining (Bearish sentiment)."
               ELSE "Mixed sentiment across market breadth."
        ELSE "Market breadth data not available."

\* a / (a + d) > 0.75 with a + d > 0, as 4 * a > 3 * (a + d)
MarketBreadth(valuation) ==
    LET adv == Fill0(Get(valuation, "advance_symbol", Num(0)))
        dec == Fill0(Get(valuation, "decline_symbol", Num(0)))
    IN  IF DOMAIN valuation = {} THEN InitialAlerts.marketBreadth
        ELSE IF adv + dec > 0
          THEN IF 4 * adv > 3 * (adv + dec)
                 THEN "Majority of stocks are advancing (Bullish sentiment)."
               ELSE IF 4 * dec > 3 * (adv + dec)
                 THEN "Majority of stocks are declining (Bearish sentiment)."
               ELSE "Mixed sentiment across market breadth."
        ELSE "Market breadth data not available."

BuyingInterest(valuation) ==
    LET adv_turn == Fill0(Get(valuation, "advance_top_turnover", Num(0)))
        dec_turn == Fill0(Get(valuation, "decline_top_turnover", Num(0)))
    IN  IF DOMAIN valuation = {} THEN InitialAlerts.buyingInterest
        ELSE IF adv_turn + dec_turn > 0
          THEN IF 4 * adv_turn > 3 * (adv_turn + dec_turn)
                 THEN "Turnover concentrated in advancing stocks (Strong Buying Interest)."
               ELSE IF 4 * dec_turn > 3 * (adv_turn + dec_turn)
                 THEN "Turnover concentrated in declining stocks (Strong Selling Interest)."
               ELSE "Turnover is balanced across advancing and declining stocks."
        ELSE "Turnover data not available."

\* generate_alerts(valuation_df, options_df)
GenerateAlerts(valuation, options) ==
    LET lists == AlertLists(options)
    IN  [fairValuation   |-> FairValuation(valuation),
         marketBreadth   |-> MarketBreadth(valuation),
         buyingInterest  |-> BuyingInterest(valuation),
         momentum        |-> lists.momentum,
         unwinding       |-> lists.unwinding,
         freshLongs      |-> lists.freshLongs,
         buyerDominance  |-> lists.buyerDominance,
         sellerDominance |-> lists.sellerDominance]

----------------------------------------------------------------------------
(* The payloads the provider can send *)

MaxChain     == 1   \* rows in the option chain
MaxContracts == 2   \* records in a most-active list

K1 == Num(21000)
K2 == Num(21500)

\* CE / PE sub-records of a chain row
DetailFull ==
    [expiryDate |-> "E1", openInterest |-> Num(120000),
     changeinOpenInterest |-> Num(15000), totalBuyQuantity |-> Num(90000),
     totalSellQuantity |-> Num(40000), pChange |-> Num(5),
     lastPrice |-> Num(1250), totalTradedVolume |-> Num(500)]
DetailZero ==
    [openInterest |-> Num(0), changeinOpenInterest |-> Num(0),
     totalBuyQuantity |-> Num(0), totalSellQuantity |-> Num(0),
     pChange |-> Num(0), lastPrice |-> Num(0), totalTradedVolume |-> Num(0)]
DetailDirty ==
    [expiryDate |-> "E1", openInterest |-> NoneV,
     changeinOpenInterest |-> BadStr, totalSellQuantity |-> NumStr(7),
     pChange |-> NumStr(25), lastPrice |-> BadStr,
     totalTradedVolume |-> NumStr(300)]

ChainRows ==
    { [strikePrice |-> NoneV, CE |-> DetailFull] }
    \cup
    { Update(Update([strikePrice |-> K1], ce), pe) :
        ce \in { EmptyDict, [CE |-> DetailFull], [CE |-> DetailZero], [CE |-> DetailDirty] },
        pe \in { EmptyDict, [PE |-> DetailFull] } }

SeqsUpTo(S, n) == UNION { [1..k -> S] : k \in 0..n }

\* the rows that follow the first one of a chain
MoreRows ==
    { [strikePrice |-> K1, CE |-> [expiryDate |-> "E1"] @@ DetailZero],
      [strikePrice |-> K2, PE |-> DetailFull] }

Chains ==
    { c \in SeqsUpTo(ChainRows \cup MoreRows, MaxChain) :
        \A i \in 2..Len(c) : c[i] \in MoreRows }

\* the trade fields a summary record carries
SummaryFields ==
    { EmptyDict,
      [OI |-> Num(70000), COI |-> Num(0), TBQ |-> BadStr, TSQ |-> NoneV,
       lastPrice |-> Num(0), volume |-> NumStr(900), pchange |-> NoneV] }

\* summary records in the full variety of their identifying fields
DetailedRecords ==
    { Update(Update(Update(f, sp), ty), ex) :
        f  \in SummaryFields,
        sp \in { EmptyDict, [strikePrice |-> K1] },
        ty \in { EmptyDict, [optionType |-> "Call"], [optionType |-> "Put"],
                 [optionType |-> "Index"] },
        ex \in { EmptyDict, [expiryDate |-> NoneStr], [expiryDate |-> "E1"],
                 [expiryDate |-> "E2"] } }

\* the records that follow the first one of a list
PlainRecords ==
    { [strikePrice |-> K1, optionType |-> "Call", expiryDate |-> "E1", OI |-> Num(50)],
      [strikePrice |-> K2, optionType |-> "Call", expiryDate |-> "E1", OI |-> Num(90)],
      [strikePrice |-> K2, optionType |-> "Index", OI |-> Num(10)],
      [strikePrice |-> K1, optionType |-> "Put", OI |-> BadStr],
      [strikePrice |-> NoneV, optionType |-> "Call", OI |-> Num(70)] }

\* a list is one record of any kind, or up to MaxContracts plain records
ContractLists ==
    { << r >> : r \in DetailedRecords } \cup SeqsUpTo(PlainRecords, MaxContracts)

\* active_json: the payload carries one of the three lists
ActivePayloads ==
    { [call |-> l, put |-> << >>, oi |-> << >>] : l \in ContractLists }
    \cup { [call |-> << >>, put |-> l, oi |-> << >>] : l \in ContractLists }
    \cup { [call |-> << >>, put |-> << >>, oi |-> l] : l \in ContractLists }

\* default_stats, the columns generate_alerts reads
DefaultStats ==
    [peRatio |-> Num(0), advance_symbol |-> Num(0), decline_symbol |-> Num(0),
     advance_top_turnover |-> Num(0), decline_top_turnover |-> Num(0)]

\* the merged index / advance-decline row of the provider
IndexPayloads ==
    { EmptyDict,
      [peRatio |-> Num(30), advance_symbol |-> Num(40), decline_symbol |-> Num(10)] }

NearestExpiries == { "", "E1" }

MaxRows == 2   \* rows in an options table handed to generate_alerts

\* CE / PE sub-records by the alerts they raise
DetailUnwinding ==
    [openInterest |-> Num(60000), changeinOpenInterest |-> Num(0 - 12000),
     totalBuyQuantity |-> Num(90000), totalSellQuantity |-> Num(40000),
     pChange |-> Num(25), lastPrice |-> Num(1250)]
DetailFreshLongs ==
    [openInterest |-> Num(60000), changeinOpenInterest |-> Num(15000),
     totalBuyQuantity |-> Num(40000), totalSellQuantity |-> Num(90000),
     pChange |-> Num(0 - 25), lastPrice |-> Num(1250)]
DetailAtThresholds ==
    [openInterest |-> Num(50000), changeinOpenInterest |-> Num(10000),
     totalBuyQuantity |-> Num(50000), totalSellQuantity |-> Num(0),
     pChange |-> Num(20), lastPrice |-> Num(1250)]

DetailSteady ==
    [openInterest |-> Num(60000), changeinOpenInterest |-> Num(15000),
     totalBuyQuantity |-> Num(90000), totalSellQuantity |-> Num(40000),
     pChange |-> Num(15), lastPrice |-> Num(1250)]

\* rows of all_options_for_alerts, as the chain processing builds them
TableRows ==
    { AlertOpt(k.strike, k.typ, k.expiry, d) :
        k \in { [strike |-> K1, typ |-> "CE", expiry |-> "E1"],
                [strike |-> K1, typ |-> "CE", expiry |-> "E2"],
                [strike |-> Num(9000), typ |-> "PE", expiry |-> "E1"] },
        d \in { DetailUnwinding, DetailFreshLongs, DetailAtThresholds,
                DetailSteady, DetailZero, DetailDirty } }

Tables == SeqsUpTo(TableRows, MaxRows)

MaxList == 3   \* records in a most-active list handed to the sorts

\* summary records that differ in what the sorts look at: strike, side, OI
RankRecords ==
    { [strikePrice |-> K1, optionType |-> "Call", expiryDate |-> "E1", OI |-> Num(50)],
      [strikePrice |-> K2, optionType |-> "Call", expiryDate |-> "E1", OI |-> Num(90)],
      [strikePrice |-> K2, optionType |-> "Put", expiryDate |-> "E2", OI |-> Num(90)],
      [strikePrice |-> K1, optionType |-> "Put", OI |-> BadStr],
      [strikePrice |-> NoneV, optionType |-> "Call", OI |-> Num(70)],
      [strikePrice |-> K2, optionType |-> "Index", OI |-> Num(10)],
      [strikePrice |-> K1, optionType |-> "Index", OI |-> Num(500)] }

RankLists == SeqsUpTo(RankRecords, MaxList)

\* active_json for the sorts: the payload carries one of the three lists, or
\* the same records in all three
RankPayloads ==
    { [call |-> l, put |-> << >>, oi |-> << >>] : l \in RankLists }
    \cup { [call |-> << >>, put |-> l, oi |-> << >>] : l \in RankLists }
    \cup { [call |-> << >>, put |-> << >>, oi |-> l] : l \in RankLists }
    \cup { [call |-> l, put |-> l, oi |-> l] : l \in RankLists }

\* the chains the sorted lists are enriched from
RankChains ==
    { << >>, << [strikePrice |-> K1, CE |-> DetailDirty, PE |-> DetailFull] >> }

\* the index-statistics row: empty, the defaults, or the provider's figures
Valuations ==
    { EmptyDict,
      DefaultStats,
      [peRatio |-> Num(30), advance_symbol |-> Num(40), decline_symbol |-> Num(10),
       advance_top_turnover |-> Num(10), decline_top_turnover |-> Num(90)],
      [peRatio |-> Num(12), advance_symbol |-> Num(5), decline_symbol |-> Num(45),
       advance_top_turnover |-> Num(80), decline_top_turnover |-> Num(20)],
      [peRatio |-> Num(20), advance_symbol |-> Num(25), decline_symbol |-> Num(25),
       advance_top_turnover |-> Num(50), decline_top_turnover |-> Num(50)],
      [peRatio |-> BadStr, advance_symbol |-> NoneV, decline_symbol |-> Num(0)],
      [peRatio |-> NumStr(18), advance_symbol |-> Num(30), decline_symbol |-> Num(10)],
      [advance_symbol |-> NumStr(45), decline_symbol |-> BadStr],
      [decline_symbol |-> Num(10), advance_top_turnover |-> NumStr(75),
       decline_top_turnover |-> Num(25)] }

----------------------------------------------------------------------------
(* get_nifty_data, one request served from a cold start *)

NoSession == "None"

\* time.time() when the process starts serving, in seconds
StartTime == 1000

\* no call of get_nse_session has been made
NoCall ==
    [at |-> 0, requests |-> 0, refreshed |-> FALSE, raised |-> FALSE,
     returned |-> NoSession]
NoFailure == [at |-> "none", kind |-> "none"]
Snapshots == { "large_deals", "volume_gainers", "most_active", "corporates_pit" }

dataVars == <<option_rows_from_oc, nearest_expiry, mostActiveCall_raw,
              mostActivePut_raw, mostActiveOI_raw, all_options_for_alerts,
              oc_details_map, calls_enriched, puts_enriched, oi_enriched_temp,
              oi_sorted, nifty_stats, alerts_output>>

Init ==
    /\ pc = "session"
    /\ option_rows_from_oc = << >>
    /\ nearest_expiry = ""
    /\ mostActiveCall_raw = << >>
    /\ mostActivePut_raw = << >>
    /\ mostActiveOI_raw = << >>
    /\ all_options_for_alerts = << >>
    /\ oc_details_map = EmptyDict
    /\ calls_enriched = << >>
    /\ puts_enriched = << >>
    /\ oi_enriched_temp = << >>
    /\ oi_sorted = << >>
    /\ nifty_stats = DefaultStats
    /\ alerts_output = InitialAlerts
    /\ _session = NoSession
    /\ _last_session_update = 0
    /\ now = StartTime
    /\ session_call = NoCall
    /\ failed = NoFailure
    /\ status = "pending"

\* the request ends with an HTTPException: the caller gets the status code and
\* nothing of what the handler had computed
Fail(code, at, kind) ==
    /\ status' = code
    /\ failed' = [at |-> at, kind |-> kind]
    /\ pc' = "done"
    /\ option_rows_from_oc' = << >>
    /\ nearest_expiry' = ""
    /\ mostActiveCall_raw' = << >>
    /\ mostActivePut_raw' = << >>
    /\ mostActiveOI_raw' = << >>
    /\ all_options_for_alerts' = << >>
    /\ oc_details_map' = EmptyDict
    /\ calls_enriched' = << >>
    /\ puts_enriched' = << >>
    /\ oi_enriched_temp' = << >>
    /\ oi_sorted' = << >>
    /\ nifty_stats' = DefaultStats
    /\ alerts_output' = InitialAlerts

\* get_nse_session() with no session cached: the refresh succeeds, or 503
GetSession ==
    /\ pc = "session"
    /\ \/ /\ _session' = "S1"
          /\ _last_session_update' = now
          /\ pc' = "index"
          /\ UNCHANGED <<dataVars, now, session_call, failed, status>>
       \/ /\ Fail("503", "session", "network")
          /\ UNCHANGED <<_session, sessionClock>>

\* lines 262-284
FetchIndexStats ==
    /\ pc = "index"
    /\ \/ /\ \E row \in IndexPayloads : nifty_stats' = Update(DefaultStats, row)
          /\ pc' = "active"
          /\ UNCHANGED <<option_rows_from_oc, nearest_expiry, mostActiveCall_raw,
                         mostActivePut_raw, mostActiveOI_raw,
                         all_options_for_alerts, oc_details_map, calls_enriched,
                         puts_enriched, oi_enriched_temp, oi_sorted,
                         alerts_output, failed, status>>
       \/ Fail("503", "index", "network")
    /\ UNCHANGED <<_session, sessionClock>>

\* lines 287-292
FetchActive ==
    /\ pc = "active"
    /\ \/ /\ \E a \in ActivePayloads :
                /\ mostActiveCall_raw' = a.call
                /\ mostActivePut_raw' = a.put
                /\ mostActiveOI_raw' = a.oi
          /\ pc' = "chain"
          /\ UNCHANGED <<option_rows_from_oc, nearest_expiry,
                         all_options_for_alerts, oc_details_map, calls_enriched,
                         puts_enriched, oi_enriched_temp, oi_sorted, nifty_stats,
                         alerts_output, failed, status>>
       \/ Fail("503", "active", "network")
    /\ UNCHANGED <<_session, sessionClock>>

\* lines 295-329: get_nearest_expiry_from_nse swallows its errors
FetchChain ==
    /\ pc = "chain"
    /\ \/ /\ \E e \in NearestExpiries : nearest_expiry' = e
          /\ \E rows \in Chains : option_rows_from_oc' = rows
          /\ pc' = "rows"
          /\ UNCHANGED <<mostActiveCall_raw, mostActivePut_raw, mostActiveOI_raw,
                         all_options_for_alerts, oc_details_map, calls_enriched,
                         puts_enriched, oi_enriched_temp, oi_sorted, nifty_stats,
                         alerts_output, failed, status>>
       \/ Fail("503", "chain", "network")
    /\ UNCHANGED <<_session, sessionClock>>

\* lines 331-427
ProcessChain ==
    /\ pc = "rows"
    /\ all_options_for_alerts' = AllOptions(option_rows_from_oc, nearest_expiry)
    /\ oc_details_map' = BuildMap(all_options_for_alerts', EmptyDict)
    /\ pc' = "calls"
    /\ UNCHANGED <<option_rows_from_oc, nearest_expiry, mostActiveCall_raw,
                   mostActivePut_raw, mostActiveOI_raw, calls_enriched,
                   puts_enriched, oi_enriched_temp, oi_sorted, nifty_stats,
                   alerts_output, _session, sessionClock, failed, status>>

\* sorted(enrich_contracts(list), key=strike) raises
SortedEnrichRaises(list) ==
    \/ EnrichListRaises(list)
    \/ SortRaises(StrikeKeys(EnrichContracts(list, oc_details_map, nearest_expiry)))

SortedEnrich(list) ==
    LET enriched == EnrichContracts(list, oc_details_map, nearest_expiry)
    IN  SortedByKey(enriched, StrikeKeys(enriched))

\* line 480; an exception is caught at line 522 and becomes a 500
EnrichCalls ==
    /\ pc = "calls"
    /\ IF SortedEnrichRaises(mostActiveCall_raw)
         THEN Fail("500", "none", "processing")
         ELSE /\ calls_enriched' = SortedEnrich(mostActiveCall_raw)
              /\ mostActiveCall_raw' =
                    ContractsAfterEnrich(mostActiveCall_raw, oc_details_map, nearest_expiry)
              /\ pc' = "puts"
              /\ UNCHANGED <<option_rows_from_oc, nearest_expiry,
                             mostActivePut_raw, mostActiveOI_raw, all_options_for_alerts,
                             oc_details_map, puts_enriched, oi_enriched_temp,
                             oi_sorted, nifty_stats, alerts_output, failed, status>>
    /\ UNCHANGED <<_session, sessionClock>>

\* line 481
EnrichPuts ==
    /\ pc = "puts"
    /\ IF SortedEnrichRaises(mostActivePut_raw)
         THEN Fail("500", "none", "processing")
         ELSE /\ puts_enriched' = SortedEnrich(mostActivePut_raw)
              /\ mostActivePut_raw' =
                    ContractsAfterEnrich(mostActivePut_raw, oc_details_map, nearest_expiry)
              /\ pc' = "oi"
              /\ UNCHANGED <<option_rows_from_oc, nearest_expiry,
                             mostActiveCall_raw, mostActiveOI_raw, all_options_for_alerts,
                             oc_details_map, calls_enriched, oi_enriched_temp,
                             oi_sorted, nifty_stats, alerts_output, failed, status>>
    /\ UNCHANGED <<_session, sessionClock>>

\* lines 483-494
EnrichOI ==
    /\ pc = "oi"
    /\ IF EnrichListRaises(mostActiveOI_raw)
         THEN Fail("500", "none", "processing")
         ELSE /\ oi_enriched_temp' =
                    EnrichContracts(mostActiveOI_raw, oc_details_map, nearest_expiry)
              /\ oi_sorted' = RankByOI(oi_enriched_temp')
              /\ mostActiveOI_raw' =
                    ContractsAfterEnrich(mostActiveOI_raw, oc_details_map, nearest_expiry)
              /\ pc' = "alerts"
              /\ UNCHANGED <<option_rows_from_oc, nearest_expiry,
                             mostActiveCall_raw, mostActivePut_raw,
                              all_options_for_alerts,
                             oc_details_map, calls_enriched, puts_enriched,
                             nifty_stats, alerts_output, failed, status>>
    /\ UNCHANGED <<_session, sessionClock>>

\* line 497
Alerts ==
    /\ pc = "alerts"
    /\ alerts_output' = GenerateAlerts(nifty_stats, all_options_for_alerts)
    /\ pc' = "respond"
    /\ UNCHANGED <<option_rows_from_oc, nearest_expiry, mostActiveCall_raw,
                   mostActivePut_raw, mostActiveOI_raw, all_options_for_alerts,
                   oc_details_map, calls_enriched, puts_enriched,
                   oi_enriched_temp, oi_sorted, nifty_stats, _session, sessionClock,
                   failed, status>>

\* the response built with the snapshot that failed left out
Respond_WithoutFailedSnapshot ==
    /\ pc = "respond"
    /\ status' = "200"
    /\ pc' = "done"
    /\ \/ failed' = failed
       \/ \E snap \in Snapshots, kind \in { "network", "invalid" } :
             failed' = [at |-> snap, kind |-> kind]
    /\ UNCHANGED dataVars
    /\ UNCHANGED <<_session, sessionClock>>

\* lines 503-525: the four snapshots are fetched while the response is built;
\* the HTTPException a snapshot raises (503 on a network error, 500 on invalid
\* JSON) is caught by "except Exception" at line 522 and raised again as a 500
Respond ==
    /\ pc = "respond"
    /\ \/ /\ status' = "200"
          /\ pc' = "done"
          /\ UNCHANGED <<dataVars, failed>>
       \/ \E snap \in Snapshots, kind \in { "network", "invalid" } :
             Fail("500", snap, kind)
    /\ UNCHANGED <<_session, sessionClock>>

Next ==
    \/ GetSession
    \/ FetchIndexStats
    \/ FetchActive
    \/ FetchChain
    \/ ProcessChain
    \/ EnrichCalls
    \/ EnrichPuts
    \/ EnrichOI
    \/ Alerts
    \/ Respond

Spec == Init /\ [][Next]_vars

----------------------------------------------------------------------------
(* generate_alerts on its own: one call on any valuation and options table *)

InitAlerts ==
    /\ pc = "alerts"
    /\ option_rows_from_oc = << >>
    /\ nearest_expiry = ""
    /\ mostActiveCall_raw = << >>
    /\ mostActivePut_raw = << >>
    /\ mostActiveOI_raw = << >>
    /\ all_options_for_alerts \in Tables
    /\ oc_details_map = EmptyDict
    /\ calls_enriched = << >>
    /\ puts_enriched = << >>
    /\ oi_enriched_temp = << >>
    /\ oi_sorted = << >>
    /\ nifty_stats \in Valuations
    /\ alerts_output = InitialAlerts
    /\ _session = "S1"
    /\ _last_session_update = StartTime
    /\ now = StartTime
    /\ session_call = NoCall
    /\ failed = NoFailure
    /\ status = "pending"

NextAlerts == Alerts

SpecAlerts == InitAlerts /\ [][NextAlerts]_vars

----------------------------------------------------------------------------
(* The enrichment and the sorts on their own: lines 480-494 on any three *)
(* lists, after the chain has been processed                              *)

InitLists ==
    /\ pc = "calls"
    /\ option_rows_from_oc \in RankChains
    /\ nearest_expiry = "E1"
    /\ \E a \in RankPayloads :
          /\ mostActiveCall_raw = a.call
          /\ mostActivePut_raw = a.put
          /\ mostActiveOI_raw = a.oi
    /\ all_options_for_alerts = AllOptions(option_rows_from_oc, nearest_expiry)
    /\ oc_details_map = BuildMap(all_options_for_alerts, EmptyDict)
    /\ calls_enriched = << >>
    /\ puts_enriched = << >>
    /\ oi_enriched_temp = << >>
    /\ oi_sorted = << >>
    /\ nifty_stats = DefaultStats
    /\ alerts_output = InitialAlerts
    /\ _session = "S1"
    /\ _last_session_update = StartTime
    /\ now = StartTime
    /\ session_call = NoCall
    /\ failed = NoFailure
    /\ status = "pending"

NextLists ==
    \/ EnrichCalls
    \/ EnrichPuts
    \/ EnrichOI

SpecLists == InitLists /\ [][NextLists]_vars

----------------------------------------------------------------------------
(* get_nse_session on its own: calls made as time passes *)

SESSION_REFRESH_INTERVAL == 300

MaxTime      == 1900   \* the clock stops here
MaxRefreshes == 3      \* sessions created

\* the seconds that pass between two calls
Elapses == { 150, 151 }

\* requests.Session(): the sessions in the order they are created
SessionIds == << "S1", "S2", "S3", "S4", "S5" >>

SessionsCreated ==
    IF _session = NoSession THEN 0
    ELSE CHOOSE i \in 1..Len(SessionIds) : SessionIds[i] = _session

\* the test of line 50 with ">=" for ">"
NeedsRefresh_AtInterval ==
    \/ _session = NoSession
    \/ (now - _last_session_update) >= SESSION_REFRESH_INTERVAL

\* line 50
NeedsRefresh ==
    \/ _session = NoSession
    \/ (now - _last_session_update) > SESSION_REFRESH_INTERVAL

requestVars == <<pc, dataVars, failed, status>>

Tick ==
    /\ \E d \in Elapses :
          /\ now + d <= MaxTime
          /\ now' = now + d
    /\ UNCHANGED <<_session, _last_session_update, session_call, requestVars>>

\* line 69 alone: the cached session is returned
ReturnCached ==
    /\ ~ NeedsRefresh
    /\ session_call' = [at |-> now, requests |-> 0, refreshed |-> FALSE,
                        raised |-> FALSE, returned |-> _session]
    /\ UNCHANGED <<_session, _last_session_update, now, requestVars>>

\* lines 51-63: both requests succeed
RefreshSession ==
    /\ NeedsRefresh
    /\ SessionsCreated < MaxRefreshes
    /\ _session' = SessionIds[SessionsCreated + 1]
    /\ _last_session_update' = now
    /\ session_call' = [at |-> now, requests |-> 2, refreshed |-> TRUE,
                        raised |-> FALSE, returned |-> _session']
    /\ UNCHANGED <<now, requestVars>>

\* a failed refresh that goes on to "return _session" whether or not a session
\* is cached
RefreshFails_NoRaise ==
    /\ NeedsRefresh
    /\ \E n \in { 1, 2 } :
          session_call' = [at |-> now, requests |-> n, refreshed |-> FALSE,
                           raised |-> FALSE, returned |-> _session]
    /\ UNCHANGED <<_session, _last_session_update, now, requestVars>>

\* lines 64-69: the first or the second request fails; 503 when no session is
\* cached, the stale session otherwise
RefreshFails ==
    /\ NeedsRefresh
    /\ \E n \in { 1, 2 } :
          session_call' = [at |-> now, requests |-> n, refreshed |-> FALSE,
                           raised |-> (_session = NoSession), returned |-> _session]
    /\ UNCHANGED <<_session, _last_session_update, now, requestVars>>

NextSession ==
    \/ Tick
    \/ ReturnCached
    \/ RefreshSession
    \/ RefreshFails

SpecSession == Init /\ [][NextSession]_vars

----------------------------------------------------------------------------
(* Properties of the merger, stated on a served request *)

\* the request returned the aggregate response
Served == pc = "done" /\ status = "200"

\* the three summary lists with what enrich_contracts made of them
EnrichedLists ==
    { [raw |-> mostActiveCall_raw, out |-> calls_enriched],
      [raw |-> mostActivePut_raw,  out |-> puts_enriched],
      [raw |-> mostActiveOI_raw,   out |-> oi_enriched_temp] }

HasStrike(c) == Get(c, "strikePrice", NoneV) # NoneV

\* out is the record emitted for the summary record c: it has c's fields,
\* changed at most in the fields enrich_contracts writes
WrittenFields ==
    { "OI", "COI", "TBQ", "TSQ", "pchange", "lastPrice", "volume", "value",
      "optionType", "OI_display", "COI_display", "volume_display", "expiryDate" }

EmittedFor(c, out) ==
    /\ DOMAIN c \subseteq DOMAIN out
    /\ \A f \in DOMAIN c \ WrittenFields : out[f] = c[f]
    /\ "optionType" \in DOMAIN c => out["optionType"] = ReplaceSide(c["optionType"])

\* C1: a summary record that matches an entry of the lookup table is emitted
\* with the OI, COI, TBQ, TSQ, pchange and lastPrice of that entry.
C1_MatchedTakesChainValues ==
    Served =>
      \A l \in EnrichedLists : \A i \in 1..Len(l.raw) :
         HasDetail(l.raw[i], oc_details_map, nearest_expiry) =>
            LET d == DetailOf(l.raw[i], oc_details_map, nearest_expiry)
            IN  \E j \in 1..Len(l.out) :
                   /\ EmittedFor(l.raw[i], l.out[j])
                   /\ l.out[j]["OI"] = d["openInterest"]
                   /\ l.out[j]["COI"] = d["changeinOpenInterest"]
                   /\ l.out[j]["TBQ"] = d["totalBuyQuantity"]
                   /\ l.out[j]["TSQ"] = d["totalSellQuantity"]
                   /\ l.out[j]["pchange"] = d["pChange"]
                   /\ l.out[j]["lastPrice"] = d["lastPrice"]

\* C2: the emitted records are exactly the summary records that have a
\* strikePrice: a record without one is dropped.
C2_NoStrikeDropped ==
    Served =>
      \A l \in EnrichedLists :
         /\ \A j \in 1..Len(l.out) : HasStrike(l.out[j])
         /\ Len(l.out) = Cardinality({ i \in 1..Len(l.raw) : HasStrike(l.raw[i]) })

\* the summary list a step of the merger is about to enrich
ListAt(p) ==
    CASE p = "calls" -> mostActiveCall_raw
      [] p = "puts"  -> mostActivePut_raw
      [] p = "oi"    -> mostActiveOI_raw
      [] OTHER       -> << >>

MissingSide(list) ==
    \E i \in 1..Len(list) : Get(list[i], "optionType", NoneStr) = NoneStr

\* C3: enriching a list that holds a record without a side label does not end
\* the request with an error.
C3_MissingSideTolerated ==
    [][ MissingSide(ListAt(pc)) => status' = "pending" ]_vars

\* the sides of the chain rows whose traded volume is a plain number
C4_Volume(r, side) == r[side]["totalTradedVolume"]

\* C4: the lookup table holds, for a strike, expiry and side, the traded volume
\* of the chain row it was built from, and a matched record is emitted with it.
C4_VolumeFromChain ==
    Served =>
      /\ \A i \in 1..Len(option_rows_from_oc) : \A side \in { "CE", "PE" } :
            LET r == option_rows_from_oc[i]
                key == << Get(r, "strikePrice", NoneV),
                          Or3(Get(Get(r, "CE", EmptyDict), "expiryDate", NoneStr),
                              Get(Get(r, "PE", EmptyDict), "expiryDate", NoneStr),
                              nearest_expiry) >>
            IN  ( /\ Len(option_rows_from_oc) = 1
                  /\ side \in DOMAIN r
                  /\ "totalTradedVolume" \in DOMAIN r[side]
                  /\ C4_Volume(r, side).t = "num"
                  /\ key \in DOMAIN oc_details_map
                  /\ side \in DOMAIN oc_details_map[key] )
                => oc_details_map[key][side]["totalTradedVolume"] = C4_Volume(r, side)
      /\ \A l \in EnrichedLists : \A i \in 1..Len(l.raw) :
            HasDetail(l.raw[i], oc_details_map, nearest_expiry) =>
               \E j \in 1..Len(l.out) :
                  /\ EmittedFor(l.raw[i], l.out[j])
                  /\ l.out[j]["volume"] =
                        DetailOf(l.raw[i], oc_details_map, nearest_expiry)["totalTradedVolume"]

\* C5: a network failure of an upstream fetch ends the request with 503.
C5_NetworkFailureIs503 ==
    failed.kind = "network" => status = "503"

----------------------------------------------------------------------------
(* Properties of generate_alerts, stated on the state after the call *)

AlertsComputed == pc = "respond" /\ status = "pending"

Both(a, b) == Range(a) \cap Range(b)

\* the rows of the options table that carry the key "{strike} {side}"
RowsWithKey(key) ==
    { i \in 1..Len(all_options_for_alerts) :
        AlertKey(all_options_for_alerts[i]["strikePrice"],
                 all_options_for_alerts[i]["optionType"]) = key }

\* C6 as stated: after generate_alerts on any options table no key is in both
\* unwinding and freshLongs, and no key is in both buyerDominance and
\* sellerDominance, several rows of one strike and side included.
C6_BucketsDisjoint ==
    AlertsComputed =>
        /\ Both(alerts_output.unwinding, alerts_output.freshLongs) = {}
        /\ Both(alerts_output.buyerDominance, alerts_output.sellerDominance) = {}

\* C6: the exclusion is per row of the table: a key that is in both unwinding
\* and freshLongs, or in both buyerDominance and sellerDominance, is carried
\* by at least two rows of the table (the same strike and side at different
\* expiries); a key carried by one row is in at most one bucket of each pair.
C6_BucketsDisjointPerRow ==
    AlertsComputed =>
        \A key \in Both(alerts_output.unwinding, alerts_output.freshLongs)
                   \cup Both(alerts_output.buyerDominance, alerts_output.sellerDominance) :
            Cardinality(RowsWithKey(key)) >= 2

\* two rows of one strike and side at different expiries, one unwinding and
\* one adding fresh longs
C6_Witness ==
    /\ AlertsComputed
    /\ Len(all_options_for_alerts) = 2
    /\ all_options_for_alerts[1]["expiryDate"] # all_options_for_alerts[2]["expiryDate"]
    /\ \E key \in Both(alerts_output.unwinding, alerts_output.freshLongs) :
          RowsWithKey(key) = { 1, 2 }

ListsEmpty(alerts) ==
    /\ alerts.momentum = << >>
    /\ alerts.unwinding = << >>
    /\ alerts.freshLongs = << >>
    /\ alerts.buyerDominance = << >>
    /\ alerts.sellerDominance = << >>

NarrativesUnavailable(alerts) ==
    /\ alerts.fairValuation = "Valuation data unavailable."
    /\ alerts.marketBreadth = "Market breadth data unavailable."
    /\ alerts.buyingInterest = "Buying interest data unavailable."

\* C7 as stated: with an empty options table the five list buckets are empty
\* and the three narratives keep their 'data unavailable' text whatever the
\* index-statistics row contains, and no exception is raised.
C7_EmptyTableAllUnavailable ==
    (pc = "respond" /\ all_options_for_alerts = << >>) =>
        /\ status = "pending"
        /\ ListsEmpty(alerts_output)
        /\ NarrativesUnavailable(alerts_output)

\* C7: with an empty options table the five list buckets are empty and no
\* exception is raised; the narratives do not depend on the options table:
\* each keeps its 'data unavailable' text exactly when the index-statistics
\* row is empty, and is computed from the row otherwise.
C7_EmptyTableListsEmpty ==
    (pc = "respond" /\ all_options_for_alerts = << >>) =>
        /\ status = "pending"
        /\ ListsEmpty(alerts_output)
        /\ alerts_output.fairValuation = "Valuation data unavailable."
              <=> DOMAIN nifty_stats = {}
        /\ alerts_output.marketBreadth = "Market breadth data unavailable."
              <=> DOMAIN nifty_stats = {}
        /\ alerts_output.buyingInterest = "Buying interest data unavailable."
              <=> DOMAIN nifty_stats = {}

\* an empty options table with index statistics that give a narrative
C7_Witness ==
    /\ pc = "respond"
    /\ all_options_for_alerts = << >>
    /\ DOMAIN nifty_stats # {}
    /\ ListsEmpty(alerts_output)
    /\ alerts_output.fairValuation = "PE ratio is high, suggesting overvaluation."

----------------------------------------------------------------------------
(* Properties of the normalisation *)

\* the chain rows have been turned into all_options_for_alerts
ChainProcessed == pc \in { "calls", "puts", "oi", "alerts", "respond" } \/ Served

\* what the normaliser is said to return: the number, the parsed number of a
\* numeric string, and the default for None and for any other string
C8_Expected(v, default) ==
    CASE v.t = "num" -> v
      [] v.t = "str" -> Num(v.n)
      [] OTHER       -> default

ChainFields ==
    { << "openInterest", "OI" >>, << "changeinOpenInterest", "COI" >>,
      << "totalBuyQuantity", "TBQ" >>, << "totalSellQuantity", "TSQ" >>,
      << "pChange", "pchange" >>, << "lastPrice", "lastPrice" >> }

\* C8: every normalised field of the chain rows is the parsed number, or the
\* default 0 when the value is None or does not parse, and is never NaN; the
\* lastPrice, volume and pchange of an emitted record are never NaN.
C8_NormalizedOrDefault ==
    ChainProcessed =>
      /\ \A i \in 1..Len(all_options_for_alerts) : \A f \in ChainFields :
            all_options_for_alerts[i][f[2]].t # "nan"
      /\ \A i \in 1..Len(option_rows_from_oc) : \A side \in { "CE", "PE" } :
            LET r == option_rows_from_oc[i]
            IN  (HasStrike(r) /\ side \in DOMAIN r) =>
                   \E k \in 1..Len(all_options_for_alerts) :
                      /\ all_options_for_alerts[k]["strikePrice"] = r["strikePrice"]
                      /\ all_options_for_alerts[k]["optionType"] = side
                      /\ \A f \in ChainFields :
                            all_options_for_alerts[k][f[2]] =
                               C8_Expected(Get(r[side], f[1], Num(0)), Num(0))
      /\ Served =>
            \A l \in EnrichedLists : \A j \in 1..Len(l.out) :
               \A f \in { "lastPrice", "volume", "pchange" } : l.out[j][f].t # "nan"

\* the lastPrice enrich_contracts normalises for a summary record: the matched
\* detail's, else the record's own
SourceLastPrice(c) ==
    IF HasDetail(c, oc_details_map, nearest_expiry)
      THEN DetailOf(c, oc_details_map, nearest_expiry)["lastPrice"]
      ELSE Get(c, "lastPrice", Num(MIN_TICK))

\* C9: a lastPrice that is the number 0 (or the string "0") is emitted as 0,
\* not as the minimum tick.
C9_ZeroIsKept ==
    Served =>
      \A l \in EnrichedLists : \A i \in 1..Len(l.raw) :
         SourceLastPrice(l.raw[i]) \in { Num(0), NumStr(0) } =>
            \E j \in 1..Len(l.out) :
               EmittedFor(l.raw[i], l.out[j]) /\ l.out[j]["lastPrice"] = Num(0)

\* C10: every emitted record has an expiryDate that is its own non-empty
\* value, else the nearest expiry, else 'N/A'; never None or empty.
C10_ExpiryPopulated ==
    Served =>
      \A l \in EnrichedLists : \A i \in 1..Len(l.raw) :
         \E j \in 1..Len(l.out) :
            /\ EmittedFor(l.raw[i], l.out[j])
            /\ "expiryDate" \in DOMAIN l.out[j]
            /\ l.out[j]["expiryDate"] =
                  Or3(Get(l.raw[i], "expiryDate", NoneStr), nearest_expiry, "N/A")

----------------------------------------------------------------------------
(* Properties of the sorts *)

\* the OI list has been enriched and ranked
Ranked == pc = "alerts" /\ status = "pending"

\* the normalized OI of an emitted record, as the ranking reads it
NormalizedOI(c) == NumericOr(Get(c, "OI", Num(0)), Num(0))

IsIndex(c) == Get(c, "optionType", NoneStr) \in { "Index", "XX" }

\* C11: in mostActiveOI an Index record of the source is at position 0
\* whatever its OI, and the records after it are in non-increasing order of
\* normalized OI: no record is followed by one with a larger OI.
C11_IndexFirstRestByOI ==
    Ranked =>
        /\ (\E i \in 1..Len(mostActiveOI_raw) : IsIndex(mostActiveOI_raw[i]))
              => (oi_sorted # << >> /\ IsIndex(oi_sorted[1]))
        /\ \A i, j \in 1..Len(oi_sorted) :
              (i < j /\ ~ IsIndex(oi_sorted[i]) /\ ~ IsIndex(oi_sorted[j]))
                 => ~ PyLess(NormalizedOI(oi_sorted[i]), NormalizedOI(oi_sorted[j]))

\* out is list in ascending order of strike price, records of equal strike in
\* the order they have in list
StableByStrike(list, out) ==
    /\ Len(out) = Len(list)
    /\ \E f \in [1..Len(list) -> 1..Len(list)] :
          /\ \A i \in 1..Len(list) : out[i] = list[f[i]]
          /\ \A i, j \in 1..Len(list) : i < j =>
                LET a == Get(list[f[i]], "strikePrice", Num(0))
                    b == Get(list[f[j]], "strikePrice", Num(0))
                IN  /\ a.t = "num" /\ b.t = "num"
                    /\ a.n < b.n \/ (a.n = b.n /\ f[i] < f[j])

\* C12: mostActiveCalls and mostActivePuts are the enriched records in
\* ascending order of strikePrice, equal strikes in the provider's order, and
\* the sort does not fail on any list of enriched records.
C12_SortedByStrikeStable ==
    [][ /\ (pc = "calls" /\ ~ EnrichListRaises(mostActiveCall_raw)) =>
              /\ status' = "pending"
              /\ StableByStrike(
                    EnrichContracts(mostActiveCall_raw, oc_details_map, nearest_expiry),
                    calls_enriched')
        /\ (pc = "puts" /\ ~ EnrichListRaises(mostActivePut_raw)) =>
              /\ status' = "pending"
              /\ StableByStrike(
                    EnrichContracts(mostActivePut_raw, oc_details_map, nearest_expiry),
                    puts_enriched') ]_vars

----------------------------------------------------------------------------
(* Properties of enrich_contracts, stated on the step that calls it *)

Unmatched(c) == ~ HasDetail(c, oc_details_map, nearest_expiry)

\* out is c as emitted with the OI, COI, TBQ and TSQ that c carried
KeepsOwn(c, out) ==
    /\ EmittedFor(c, out)
    /\ \A f \in { "OI", "COI", "TBQ", "TSQ" } :
          /\ f \in DOMAIN out <=> f \in DOMAIN c
          /\ f \in DOMAIN c => out[f] = c[f]

\* every unmatched record of list is in out with its own values
UnmatchedKept(list, out) ==
    \A i \in 1..Len(list) : Unmatched(list[i]) =>
        /\ Len(out) = Len(list)
        /\ \E j \in 1..Len(out) : KeepsOwn(list[i], out[j])

\* C13: a summary record that matches no entry of the lookup table is still
\* emitted by enrich_contracts, with the OI, COI, TBQ and TSQ it carried.
C13_UnmatchedKeepsOwn ==
    [][ /\ (pc = "calls" /\ ~ SortRaises(StrikeKeys(mostActiveCall_raw))) =>
              UnmatchedKept(mostActiveCall_raw, calls_enriched')
        /\ (pc = "puts" /\ ~ SortRaises(StrikeKeys(mostActivePut_raw))) =>
              UnmatchedKept(mostActivePut_raw, puts_enriched')
        /\ pc = "oi" => UnmatchedKept(mostActiveOI_raw, oi_enriched_temp') ]_vars

----------------------------------------------------------------------------
(* Properties of the classifier *)

RowKey(opt) == AlertKey(opt["strikePrice"], opt["optionType"])

TableKeys == { RowKey(all_options_for_alerts[i]) : i \in 1..Len(all_options_for_alerts) }

\* pchange of a row after normalization, as the momentum rule reads it
NormalizedPchange(opt) == Fill0(opt["pchange"])

MomentumRow(opt) ==
    NormalizedPchange(opt) > 20 \/ NormalizedPchange(opt) < 0 - 20

\* C15: a key is in the momentum bucket exactly when some row of the table
\* with that strike and side has abs(pchange) > 20 after normalization,
\* whatever the other rules say of the row.
C15_MomentumRule ==
    AlertsComputed =>
        /\ Range(alerts_output.momentum) \subseteq TableKeys
        /\ \A key \in TableKeys :
              key \in Range(alerts_output.momentum)
                 <=> \E i \in RowsWithKey(key) : MomentumRow(all_options_for_alerts[i])

\* a row with pchange -25 gives a momentum key, a row with pchange 15 that
\* adds fresh longs gives none
C15_Witness ==
    /\ AlertsComputed
    /\ Len(all_options_for_alerts) = 2
    /\ NormalizedPchange(all_options_for_alerts[1]) = 0 - 25
    /\ NormalizedPchange(all_options_for_alerts[2]) = 15
    /\ RowKey(all_options_for_alerts[1]) # RowKey(all_options_for_alerts[2])
    /\ alerts_output.momentum = << RowKey(all_options_for_alerts[1]) >>
    /\ RowKey(all_options_for_alerts[2]) \in Range(alerts_output.freshLongs)

Buckets ==
    { alerts_output.momentum, alerts_output.unwinding, alerts_output.freshLongs,
      alerts_output.buyerDominance, alerts_output.sellerDominance }

\* C16: each of the five list buckets holds no key twice and is in ascending
\* lexicographic order of its "{strike} {side}" strings, also when several
\* rows of the table share a strike and side.
C16_BucketsUniqueSorted ==
    AlertsComputed =>
        \A bucket \in Buckets : \A i, j \in 1..Len(bucket) :
            i < j => StrLess(bucket[i], bucket[j])

\* two rows of one strike and side both in momentum: the key is there once;
\* "21000 CE" is before "9000 PE"
C16_Witness ==
    /\ AlertsComputed
    /\ \E i, j \in 1..Len(all_options_for_alerts) :
          /\ i # j
          /\ RowKey(all_options_for_alerts[i]) = RowKey(all_options_for_alerts[j])
          /\ MomentumRow(all_options_for_alerts[i])
          /\ MomentumRow(all_options_for_alerts[j])
          /\ alerts_output.momentum = << RowKey(all_options_for_alerts[i]) >>

\* a count of the index statistics, zero when it is missing or not a number
Count(column) ==
    IF column \notin DOMAIN nifty_stats THEN 0
    ELSE IF nifty_stats[column].t \in { "num", "str" } THEN nifty_stats[column].n
    ELSE 0

BreadthUnavailable ==
    { "Market breadth data unavailable.", "Market breadth data not available." }

\* C17: marketBreadth is bullish when advances / (advances + declines) > 0.75,
\* bearish when declines / (advances + declines) > 0.75, mixed otherwise, and
\* unavailable exactly when advances + declines = 0, missing or NaN counts
\* taken as zero; the call does not fail.
C17_MarketBreadth ==
    AlertsComputed =>
        LET adv == Count("advance_symbol")
            dec == Count("decline_symbol")
            mb  == alerts_output.marketBreadth
        IN  /\ mb \in BreadthUnavailable <=> adv + dec = 0
            /\ mb = "Majority of stocks are advancing (Bullish sentiment)."
                  <=> (adv + dec # 0 /\ 4 * adv > 3 * (adv + dec))
            /\ mb = "Majority of stocks are declining (Bearish sentiment)."
                  <=> (adv + dec # 0 /\ 4 * dec > 3 * (adv + dec))
            /\ mb = "Mixed sentiment across market breadth."
                  <=> (adv + dec # 0 /\ 4 * adv <= 3 * (adv + dec)
                                     /\ 4 * dec <= 3 * (adv + dec))

\* 30 advances of 40 are exactly 0.75: the narrative is mixed
C17_Witness ==
    /\ AlertsComputed
    /\ Count("advance_symbol") = 30
    /\ Count("decline_symbol") = 10
    /\ alerts_output.marketBreadth = "Mixed sentiment across market breadth."

----------------------------------------------------------------------------
(* Properties of the response *)

\* nothing of what the handler computed is in what the caller receives
NothingServed ==
    /\ calls_enriched = << >>
    /\ puts_enriched = << >>
    /\ oi_sorted = << >>
    /\ nifty_stats = DefaultStats
    /\ alerts_output = InitialAlerts

\* C18: when the fetch of one of the four snapshots fails, the whole request
\* fails with an error and the caller receives none of the statistics, alerts
\* and enriched lists already computed.
C18_SnapshotFailureFailsAll ==
    failed.at \in Snapshots =>
        /\ pc = "done"
        /\ status \in { "500", "503" }
        /\ NothingServed

\* the insider-disclosure snapshot, the last of the four, has failed
C18_Witness ==
    /\ failed.at = "corporates_pit"
    /\ pc = "done"
    /\ status # "200"

----------------------------------------------------------------------------
(* Properties of the display fields *)

DisplayOf ==
    [OI |-> "OI_display", COI |-> "COI_display", volume |-> "volume_display"]

\* the display fields of an emitted record mirror its numeric fields
DisplayMirrors(out) ==
    \A f \in DOMAIN DisplayOf :
        /\ DisplayOf[f] \in DOMAIN out
        /\ IF f \notin DOMAIN out \/ EqZero(out[f])
             THEN out[DisplayOf[f]] = Dash
             ELSE out[DisplayOf[f]] = out[f]

\* out has the OI, COI and volume that the merger gave the record c before
\* the display fields were computed
NumericKept(c, out) ==
    IF HasDetail(c, oc_details_map, nearest_expiry)
      THEN LET d == MatchedFields(DetailOf(c, oc_details_map, nearest_expiry))
           IN  /\ out["OI"] = d["OI"]
               /\ out["COI"] = d["COI"]
               /\ out["volume"] = NumericOr(d["volume"], Num(0))
      ELSE /\ \A f \in { "OI", "COI" } :
                 /\ f \in DOMAIN out <=> f \in DOMAIN c
                 /\ f \in DOMAIN c => out[f] = c[f]
           /\ out["volume"] = NumericOr(Get(c, "volume", Num(0)), Num(0))

\* C19: in every emitted record OI_display, COI_display and volume_display
\* are '-' exactly when OI, COI and volume are zero or absent, and equal the
\* field otherwise; OI, COI and volume are as the merger set them, and the
\* ranked list holds the same records.
C19_DisplayFields ==
    Served =>
        /\ \A l \in EnrichedLists :
              /\ \A j \in 1..Len(l.out) : DisplayMirrors(l.out[j])
              /\ \A i \in 1..Len(l.raw) : \E j \in 1..Len(l.out) :
                    EmittedFor(l.raw[i], l.out[j]) /\ NumericKept(l.raw[i], l.out[j])
        /\ \A j \in 1..Len(oi_sorted) : oi_sorted[j] \in Range(oi_enriched_temp)

\* a record emitted with an OI shown as it is, a zero COI shown as '-' and a
\* volume parsed from a string
C19_Witness ==
    /\ Served
    /\ \E j \in 1..Len(oi_sorted) :
          /\ Get(oi_sorted[j], "OI", NoneV) = Num(70000)
          /\ Get(oi_sorted[j], "OI_display", NoneV) = Num(70000)
          /\ Get(oi_sorted[j], "COI", NoneV) = Num(0)
          /\ Get(oi_sorted[j], "COI_display", NoneV) = Dash
          /\ Get(oi_sorted[j], "volume", NoneV) = Num(900)
          /\ Get(oi_sorted[j], "volume_display", NoneV) = Num(900)

----------------------------------------------------------------------------
(* Properties of the session cache *)

\* C20: a call of get_nse_session made while a session is cached and at most
\* SESSION_REFRESH_INTERVAL has passed since the last successful refresh makes
\* no upstream request and returns the cached session; any other call
\* attempts a refresh, and only a successful refresh replaces the cached
\* session and advances the refresh timestamp.
C20_SessionCaching ==
    [][ (now' = now /\ pc' = pc) =>
          IF /\ _session # NoSession
             /\ now - _last_session_update <= SESSION_REFRESH_INTERVAL
            THEN /\ session_call'.requests = 0
                 /\ ~ session_call'.raised
                 /\ session_call'.returned = _session
                 /\ _session' = _session
                 /\ _last_session_update' = _last_session_update
            ELSE /\ session_call'.requests > 0
                 /\ IF session_call'.refreshed
                      THEN /\ _session' # _session
                           /\ _last_session_update' = now
                           /\ session_call'.returned = _session'
                      ELSE /\ _session' = _session
                           /\ _last_session_update' = _last_session_update ]_vars

\* a call made exactly SESSION_REFRESH_INTERVAL after the refresh was served
\* from the cache
C20_Witness ==
    /\ _session # NoSession
    /\ now - _last_session_update = SESSION_REFRESH_INTERVAL
    /\ session_call.at = now
    /\ session_call.requests = 0
    /\ session_call.returned = _session

\* C21: a call of get_nse_session whose refresh fails returns the cached
\* session, stale as it is, and leaves the cached session and the refresh
\* timestamp as they were, so that the next call attempts a refresh again;
\* with no session cached it raises the 503 error and the cache stays empty.
\* No call returns None.
C21_RefreshFailure ==
    [][ (now' = now /\ pc' = pc) =>
          /\ (~ session_call'.raised) => session_call'.returned # NoSession
          /\ (NeedsRefresh /\ ~ session_call'.refreshed) =>
                /\ session_call'.requests > 0
                /\ _session' = _session
                /\ _last_session_update' = _last_session_update
                /\ NeedsRefresh'
                /\ IF _session = NoSession
                     THEN session_call'.raised
                     ELSE /\ ~ session_call'.raised
                          /\ session_call'.returned = _session ]_vars

\* a refresh has just failed with a session cached: the call returned the
\* stale session
C21_Witness ==
    /\ session_call.at = now
    /\ session_call.requests > 0
    /\ ~ session_call.refreshed
    /\ ~ session_call.raised
    /\ _session # NoSession
    /\ session_call.returned = _session
    /\ now - _last_session_update > SESSION_REFRESH_INTERVAL

----------------------------------------------------------------------------
(* Properties of the pin-and-sort step *)

\* how many times the record c is in list
Occurrences(list, c) == Cardinality({ i \in 1..Len(list) : list[i] = c })

\* C22: mostActiveOI is a permutation of the records enrich_contracts emitted
\* for the open-interest list: each is there exactly as often as it was
\* emitted, whether the source has no, one or several Index records.
C22_RankingIsPermutation ==
    Ranked =>
        /\ Len(oi_sorted) = Len(oi_enriched_temp)
        /\ \A c \in Range(oi_enriched_temp) \cup Range(oi_sorted) :
              Occurrences(oi_sorted, c) = Occurrences(oi_enriched_temp, c)

====
